---- MODULE Spec2Model ----
(***************************************************************************)
(* State-machine model of the swerve drivetrain code of 2024Waffle:        *)
(*   src/subsystems/swerve.py      SwerveModule, Swerve                    *)
(*   src/subsystems/drivetrain.py  Drivetrain                              *)
(*   src/robot.py                  Waffles.autonomousInit                  *)
(*                                                                         *)
(* Python floats are modelled by exact rationals <<numerator,denominator>> *)
(* (denominator > 0, lowest terms), so a unit conversion is the arithmetic *)
(* the code performs and a round trip is exact only where the code's is.   *)
(* Angles are in degrees unless a name says otherwise.                     *)
(***************************************************************************)
EXTENDS Integers, Sequences, FiniteSets, TLC

VARIABLES
    impl,       \* which subsystem the program instantiates: "Swerve"
                \* (swerve.py), "Drivetrain" (drivetrain.py), or "Module"
                \* when a SwerveModule is exercised on its own
    isReal,     \* RobotBase.isReal(): fixed for the life of the program
    modules,    \* swerve.py: the four SwerveModule instances
    swerve,     \* swerve.py: the Swerve subsystem
    dt,         \* drivetrain.py: the Drivetrain subsystem
    calls,      \* how many operations have run on the subsystem so far
    last        \* the last operation performed (observation only)

vars == <<impl, isReal, modules, swerve, dt, calls, last>>

----------------------------------------------------------------------------
(* Exact rational arithmetic standing for Python float arithmetic.         *)

Abs(x) == IF x < 0 THEN -x ELSE x

RECURSIVE Gcd(_, _)
Gcd(a, b) == IF b = 0 THEN a ELSE Gcd(b, a % b)

RNorm(n, d) ==
    LET s == IF d < 0 THEN -1 ELSE 1
        g == Gcd(Abs(n), Abs(d))
    IN  <<(s * n) \div g, (s * d) \div g>>

R(n) == <<n, 1>>

RNeg(a) == <<-a[1], a[2]>>

RAdd(a, b) ==
    LET g == Gcd(a[2], b[2])
    IN  RNorm(a[1] * (b[2] \div g) + b[1] * (a[2] \div g), (a[2] \div g) * b[2])

RSub(a, b) == RAdd(a, RNeg(b))

RMul(a, b) ==
    LET g1 == Gcd(Abs(a[1]), b[2])
        g2 == Gcd(Abs(b[1]), a[2])
    IN  IF a[1] = 0 \/ b[1] = 0 THEN <<0, 1>>
        ELSE RNorm((a[1] \div g1) * (b[1] \div g2), (a[2] \div g2) * (b[2] \div g1))

RInv(a) == RNorm(a[2], a[1])

RDiv(a, b) == RMul(a, RInv(b))

RLt(a, b) ==
    LET g == Gcd(a[2], b[2])
    IN  a[1] * (b[2] \div g) < b[1] * (a[2] \div g)

RLe(a, b) == ~RLt(b, a)

RAbs(a) == <<Abs(a[1]), a[2]>>

\* math.floor
RFloor(a) == a[1] \div a[2]

\* Python int(): truncation toward zero
RTrunc(a) == IF a[1] >= 0 THEN a[1] \div a[2] ELSE -((-a[1]) \div a[2])

\* Python float %: the result has the sign of the (positive) divisor
RMod(a, m) == RSub(a, R(m * RFloor(RDiv(a, R(m)))))

----------------------------------------------------------------------------
(* Program constants.  constants.py is not among the source files; the     *)
(* values below stand for the names the code reads from it.                *)

\* Motor.kGearRatio: motor turns per steering (or wheel) turn
kGearRatio == 12

\* Larry.kMaxSpeed, the speed a full drive output corresponds to
kMaxSpeed == 10

\* DriveMotor.karbFF, the static-friction feed-forward
karbFF == <<1, 20>>

\* Larry.kWheelSize * math.pi, the wheel circumference
kWheelCircumference == <<8, 25>>

\* 360/2048: degrees per encoder count
DegPerCount == RDiv(R(360), R(2048))

Modules == {"LF", "LR", "RF", "RR"}

----------------------------------------------------------------------------
(* wpimath.geometry.Rotation2d and wpimath.kinematics.SwerveModuleState.   *)

\* The angle a Rotation2d built from a cosine and a sine holds (atan2):
\* the equivalent angle in (-180, 180].
WrapDeg(x) ==
    LET r == RSub(RMod(RAdd(x, R(180)), 360), R(180))
    IN  IF r = R(-180) THEN R(180) ELSE r

\* SwerveModuleState.optimize(desiredState, currentAngle)
OptimizeNoFlip(desiredState, currentAngle) == desiredState

Optimize(desiredState, currentAngle) ==
    LET delta == WrapDeg(RSub(desiredState.angle, currentAngle))
    IN  IF RLt(R(90), RAbs(delta))
        THEN [speed |-> RNeg(desiredState.speed),
              angle |-> WrapDeg(RAdd(desiredState.angle, R(180)))]
        ELSE [speed |-> desiredState.speed, angle |-> desiredState.angle]

----------------------------------------------------------------------------
(* wpimath.kinematics and wpimath.geometry as the drivetrains call them.   *)
(* Chassis speeds are kept to 1 mm/s and 1 mrad/s, poses to 1 mm, angles   *)
(* the library derives from a vector to a whole degree; cosines are        *)
(* tabulated per whole degree to four decimals.                            *)

\* a / b rounded to the nearest integer (b > 0)
DivRound(a, b) == (2 * a + b) \div (2 * b)

\* the nearest whole degree of a rational angle
RoundDeg(a) == DivRound(a[1], a[2])

\* a rational in thousandths, and back
Milli(a) == DivRound(a[1] * 1000, a[2])
FromMilli(n) == RNorm(n, 1000)

\* 10000 * cos(d degrees), d = 0 .. 90
CosTable ==
    <<10000, 9998, 9994, 9986, 9976, 9962, 9945, 9925, 9903, 9877, 9848, 9816,
      9781, 9744, 9703, 9659, 9613, 9563, 9511, 9455, 9397, 9336, 9272, 9205,
      9135, 9063, 8988, 8910, 8829, 8746, 8660, 8572, 8480, 8387, 8290, 8192,
      8090, 7986, 7880, 7771, 7660, 7547, 7431, 7314, 7193, 7071, 6947, 6820,
      6691, 6561, 6428, 6293, 6157, 6018, 5878, 5736, 5592, 5446, 5299, 5150,
      5000, 4848, 4695, 4540, 4384, 4226, 4067, 3907, 3746, 3584, 3420, 3256,
      3090, 2924, 2756, 2588, 2419, 2250, 2079, 1908, 1736, 1564, 1392, 1219,
      1045, 872, 698, 523, 349, 175, 0>>

Cos10k(d) ==
    LET r == d % 360
    IN  IF r <= 90 THEN CosTable[r + 1]
        ELSE IF r <= 180 THEN -CosTable[181 - r]
        ELSE IF r <= 270 THEN -CosTable[r - 179]
        ELSE CosTable[361 - r]

Sin10k(d) == Cos10k(d - 90)

\* Translation2d.rotateBy: the vector (x, y) turned by d degrees
RotateBy(x, y, d) ==
    [x |-> DivRound(x * Cos10k(d) - y * Sin10k(d), 10000),
     y |-> DivRound(x * Sin10k(d) + y * Cos10k(d), 10000)]

RECURSIVE SqrtSearch(_, _, _)
SqrtSearch(n, lo, hi) ==
    IF lo >= hi THEN lo
    ELSE LET mid == (lo + hi + 1) \div 2
         IN  IF mid * mid <= n THEN SqrtSearch(n, mid, hi) ELSE SqrtSearch(n, lo, mid - 1)

\* math.hypot, to the nearest integer
Hypot(x, y) ==
    LET n == x * x + y * y
        r == SqrtSearch(n, 0, 46340)
    IN  IF n - r * r <= r THEN r ELSE r + 1

RECURSIVE AngleSearch(_, _, _, _)
\* the largest d in lo..hi with y*cos(d) - x*sin(d) >= 0, for x, y >= 0
AngleSearch(x, y, lo, hi) ==
    IF lo >= hi THEN lo
    ELSE LET mid == (lo + hi + 1) \div 2
         IN  IF y * Cos10k(mid) - x * Sin10k(mid) >= 0
             THEN AngleSearch(x, y, mid, hi)
             ELSE AngleSearch(x, y, lo, mid - 1)

\* the angle of a first-quadrant vector, to the nearest whole degree
QuadrantAngle(x, y) ==
    LET d == AngleSearch(x, y, 0, 90)
    IN  IF d = 90 THEN 90
        ELSE IF Abs(y * Cos10k(d) - x * Sin10k(d)) <= Abs(y * Cos10k(d + 1) - x * Sin10k(d + 1))
             THEN d ELSE d + 1

\* Rotation2d(x, y).degrees(): atan2 in (-180, 180]; the zero vector gives 0
Atan2Deg(y, x) ==
    LET q == QuadrantAngle(Abs(x), Abs(y))
        a == IF x >= 0 THEN (IF y >= 0 THEN q ELSE -q)
             ELSE (IF y >= 0 THEN 180 - q ELSE q - 180)
    IN  IF x = 0 /\ y = 0 THEN 0
        ELSE IF a = -180 THEN 180 ELSE a

\* the order in which the kinematics objects list their module locations:
\* entry i of every tuple handed to or returned by the kinematics and the
\* estimator belongs to location i.  The records below that are indexed by a
\* module name hold tuple entry i under the name KinematicsOrder[i].
KinematicsOrder == <<"LF", "LR", "RF", "RR">>

\* the module whose value a tuple written in the given order carries at the
\* index of a kinematics location
TupleEntry(order, location) ==
    order[CHOOSE i \in 1..Len(KinematicsOrder) : KinematicsOrder[i] = location]

\* the kinematics location at whose index a tuple written in the given order
\* carries the value of module m
LocationOf(order, m) ==
    KinematicsOrder[CHOOSE i \in 1..Len(order) : order[i] = m]

\* SwerveDrive4Kinematics(...): the module locations (metres), LF, LR, RF, RR
ModuleLocation ==
    [LF |-> [x |-> 1, y |-> 1], LR |-> [x |-> -1, y |-> 1],
     RF |-> [x |-> 1, y |-> -1], RR |-> [x |-> -1, y |-> -1]]

\* ChassisSpeeds(vx, vy, omega): mm/s, mm/s, mrad/s
ChassisSpeeds(vx, vy, omega) == [vx |-> vx, vy |-> vy, omega |-> omega]

\* ChassisSpeeds.fromFieldRelativeSpeeds(speeds, robotAngle)
FromFieldRelativeWrongSense(speeds, robotAngle) ==
    LET v == RotateBy(speeds.vx, speeds.vy, RoundDeg(robotAngle))
    IN  [vx |-> v.x, vy |-> v.y, omega |-> speeds.omega]

FromFieldRelativeSpeeds(speeds, robotAngle) ==
    LET v == RotateBy(speeds.vx, speeds.vy, -RoundDeg(robotAngle))
    IN  [vx |-> v.x, vy |-> v.y, omega |-> speeds.omega]

\* ChassisSpeeds.discretize(speeds, 0.02): the twist that reaches in one
\* period the pose the speeds aim at.  With theta = omega * dt the library
\* multiplies the translation by (theta/2)/tan(theta/2) - i*theta/2; the
\* first factor is taken as 1 - theta^2/12, the library's own small-angle
\* form.  In units of 1/100000: theta^2/12 is k = omega^2/300000 and
\* theta/2 is b = omega.
Discretize(speeds) ==
    LET k == DivRound(speeds.omega * speeds.omega, 300000)
        b == speeds.omega
    IN  [vx    |-> speeds.vx - DivRound(speeds.vx * k - speeds.vy * b, 100000),
         vy    |-> speeds.vy - DivRound(speeds.vy * k + speeds.vx * b, 100000),
         omega |-> speeds.omega]

\* SwerveDrive4Kinematics.toSwerveModuleStates(speeds): the four states and
\* the module headings the kinematics object remembers; a zero command
\* keeps the remembered headings with zero speed
ToSwerveModuleStates(speeds, headings) ==
    IF speeds.vx = 0 /\ speeds.vy = 0 /\ speeds.omega = 0
    THEN [m \in Modules |-> [speed |-> R(0), angle |-> R(headings[m])]]
    ELSE [m \in Modules |->
            LET vx == speeds.vx - speeds.omega * ModuleLocation[m].y
                vy == speeds.vy + speeds.omega * ModuleLocation[m].x
            IN  [speed |-> FromMilli(Hypot(vx, vy)), angle |-> R(Atan2Deg(vy, vx))]]

\* the headings the kinematics object remembers after that call
HeadingsAfter(speeds, headings) ==
    [m \in Modules |-> RoundDeg(ToSwerveModuleStates(speeds, headings)[m].angle)]

\* the largest of a non-empty set of rationals
RMax(S) == CHOOSE a \in S : \A b \in S : RLe(b, a)

\* SwerveDrive4Kinematics.desaturateWheelSpeeds(moduleStates, attainableMaxSpeed)
DesaturateLargestOnly(states, attainableMaxSpeed) ==
    [m \in Modules |->
        IF RLt(R(attainableMaxSpeed), RAbs(states[m].speed))
        THEN [states[m] EXCEPT !.speed =
                 IF RLt(@, R(0)) THEN R(-attainableMaxSpeed) ELSE R(attainableMaxSpeed)]
        ELSE states[m]]

DesaturateWheelSpeeds(states, attainableMaxSpeed) ==
    LET realMaxSpeed == RMax({RAbs(states[m].speed) : m \in Modules})
    IN  IF RLt(R(attainableMaxSpeed), realMaxSpeed)
        THEN [m \in Modules |->
                [states[m] EXCEPT !.speed =
                    RMul(RDiv(@, realMaxSpeed), R(attainableMaxSpeed))]]
        ELSE states

\* the least-squares chassis motion of four module vectors (magnitude in
\* thousandths, angle in whole degrees): for locations centred on the robot
\* the mean of the vectors and the mean moment
ForwardKinematics(mag, ang) ==
    LET vx(m) == DivRound(mag[m] * Cos10k(ang[m]), 10000)
        vy(m) == DivRound(mag[m] * Sin10k(ang[m]), 10000)
        moment(m) == ModuleLocation[m].x * vy(m) - ModuleLocation[m].y * vx(m)
        r2(m) == ModuleLocation[m].x * ModuleLocation[m].x
                 + ModuleLocation[m].y * ModuleLocation[m].y
    IN  [vx    |-> DivRound(vx("LF") + vx("LR") + vx("RF") + vx("RR"), 4),
         vy    |-> DivRound(vy("LF") + vy("LR") + vy("RF") + vy("RR"), 4),
         omega |-> DivRound(moment("LF") + moment("LR") + moment("RF") + moment("RR"),
                            r2("LF") + r2("LR") + r2("RF") + r2("RR"))]

\* SwerveDrive4Kinematics.toChassisSpeeds(moduleStates)
ToChassisSpeeds(states) ==
    ForwardKinematics([m \in Modules |-> Milli(states[m].speed)],
                      [m \in Modules |-> RoundDeg(states[m].angle)])

----------------------------------------------------------------------------
(* swerve.py: SwerveModule.  A module is a record of its two motor         *)
(* controllers' registers and of simDrivePos.                              *)

\* SwerveModule.__init__
NewModule ==
    [dirPos      |-> R(0),   \* directionMotor selected sensor position (counts)
     dirDemand   |-> R(0),   \* directionMotor MotionMagic set point (counts)
     drivePos    |-> R(0),   \* driveMotor selected sensor position (counts)
     driveVel    |-> R(0),   \* driveMotor selected sensor velocity (counts/100ms)
     demand      |-> R(0),   \* driveMotor PercentOutput demand
     ff          |-> R(0),   \* driveMotor arbitrary feed-forward
     simDrivePos |-> R(0),
     \* observation of the last setDesiredState / changeDirection call
     call        |-> "none", \* "none", "optimized" or "raw"
     reqAngle    |-> R(0),   \* desiredState.angle as passed
     rotation    |-> R(0),   \* the rotation handed to changeDirection
     steerFrom   |-> R(0)]   \* the sensor position changeDirection read

\* SwerveModule.getAngle
getAngle(mod) == RMul(RDiv(mod.dirPos, R(kGearRatio)), DegPerCount)

\* SwerveModule.getState
getState(mod) ==
    [speed |-> RMul(RMul(RDiv(mod.driveVel, R(kGearRatio)), R(10)), kWheelCircumference),
     angle |-> RMul(RDiv(mod.dirPos, R(kGearRatio)), DegPerCount)]

\* SwerveModule.getPosition
getPosition(mod, real) ==
    IF ~real
    THEN [distance |-> mod.simDrivePos, angle |-> getAngle(mod)]
    ELSE [distance |-> RMul(RDiv(mod.drivePos, R(kGearRatio)), kWheelCircumference),
          angle    |-> getAngle(mod)]

\* the loop "while targetAngleDist > 180: targetAngleDist -= 360"
RECURSIVE WhileOver180(_)
WhileOver180(d) == IF RLt(R(180), d) THEN WhileOver180(RSub(d, R(360))) ELSE d

\* SwerveModule.changeDirection: the value of finalPos (counts at the wheel)
FinalPosAlwaysCW(mod, rotation) ==
    LET angleDiff       == RSub(rotation, getAngle(mod))
        targetAngleDist == RAbs(angleDiff)
        dist            == IF RLt(R(180), targetAngleDist)
                           THEN RAbs(WhileOver180(targetAngleDist))
                           ELSE targetAngleDist
    IN  RAdd(RDiv(mod.dirPos, R(kGearRatio)), RDiv(dist, DegPerCount))

FinalPosHalfTurnCCW(mod, rotation) ==
    LET angleDiff0      == RSub(rotation, getAngle(mod))
        targetAngleDist == RAbs(angleDiff0)
        dist            == IF RLt(R(180), targetAngleDist)
                           THEN RAbs(WhileOver180(targetAngleDist))
                           ELSE targetAngleDist
        angleDiff       == IF RLt(angleDiff0, R(0)) \/ RLe(R(360), angleDiff0)
                           THEN RMod(angleDiff0, 360)
                           ELSE angleDiff0
        finalPos        == RDiv(mod.dirPos, R(kGearRatio))
    IN  IF RLe(R(180), angleDiff)
        THEN RSub(finalPos, RDiv(dist, DegPerCount))
        ELSE RAdd(finalPos, RDiv(dist, DegPerCount))

FinalPos(mod, rotation) ==
    LET angleDiff0      == RSub(rotation, getAngle(mod))
        targetAngleDist == RAbs(angleDiff0)
        dist            == IF RLt(R(180), targetAngleDist)
                           THEN RAbs(WhileOver180(targetAngleDist))
                           ELSE targetAngleDist
        changeInTalonUnits == RDiv(dist, DegPerCount)
        angleDiff       == IF RLt(angleDiff0, R(0)) \/ RLe(R(360), angleDiff0)
                           THEN RMod(angleDiff0, 360)
                           ELSE angleDiff0
        finalPos        == RDiv(mod.dirPos, R(kGearRatio))
    IN  IF RLt(R(180), angleDiff)
        THEN RSub(finalPos, changeInTalonUnits)     \* Move CCW
        ELSE RAdd(finalPos, changeInTalonUnits)     \* Move CW

\* SwerveModule.changeDirection: the module after the call.  The MotionMagic
\* set point takes finalPos * kGearRatio; the simulated sensor takes its
\* integer part at once, the real sensor moves only as the motor turns.
changeDirection(mod, rotation, real) ==
    LET target == RMul(FinalPos(mod, rotation), R(kGearRatio))
    IN  [mod EXCEPT !.dirDemand = target,
                    !.dirPos    = IF real THEN @ ELSE R(RTrunc(target)),
                    !.rotation  = rotation,
                    !.steerFrom = mod.dirPos]

\* SwerveModule.setDesiredState: the module after the call
setDesiredState(mod, desiredState0, optimize, real) ==
    LET currentState == getState(mod)
        desiredState == IF optimize
                        THEN Optimize(desiredState0, currentState.angle)
                        ELSE desiredState0
        arbFF        == IF RLt(desiredState.speed, R(0)) THEN RNeg(karbFF) ELSE karbFF
        driven       == [mod EXCEPT !.demand   = RDiv(desiredState.speed, R(kMaxSpeed)),
                                    !.ff       = arbFF,
                                    !.call     = IF optimize THEN "optimized" ELSE "raw",
                                    !.reqAngle = desiredState0.angle]
    IN  changeDirection(driven, desiredState.angle, real)

\* SwerveModule.resetSensorPosition; absolutePosition is the CANCoder reading
resetSensorPosition(mod, absolutePosition) ==
    LET pos == RMul(RNeg(absolutePosition), RDiv(R(2048), R(360)))
    IN  [mod EXCEPT !.dirPos = RMul(R(kGearRatio), pos)]

\* SwerveModule.resetPositions
resetPositions(mod) == [mod EXCEPT !.drivePos = R(0), !.dirPos = R(0)]

\* SwerveModule.simulationPeriodic
simulationPeriodic(mod) ==
    [mod EXCEPT !.simDrivePos =
        RAdd(@, RMul(RMul(RDiv(mod.driveVel, R(10)), RDiv(R(1), R(kGearRatio))),
                     kWheelCircumference))]

----------------------------------------------------------------------------
(* Readings of a module used by the properties.                            *)

\* degrees of steering for a direction-motor position in counts
SteerDeg(counts) == RMul(RDiv(counts, R(kGearRatio)), DegPerCount)

\* the steering rotation the last command asked for: set point minus the
\* position the command started from
CommandedRotation(mod) == RSub(SteerDeg(mod.dirDemand), SteerDeg(mod.steerFrom))

----------------------------------------------------------------------------
(* wpimath odometry (SwerveDrive4Odometry, and the odometry inside         *)
(* SwerveDrive4PoseEstimator).  A pose is [x, y (mm), rot (degrees)].      *)
(* The displacement of one update is applied along the previous heading:   *)
(* the curvature of the arc within one 20 ms update is left out.           *)

Pose2d(x, y, rot) == [x |-> x, y |-> y, rot |-> rot]

\* the distances of four module positions, in mm
Distances(positions) == [m \in Modules |-> Milli(positions[m].distance)]

\* SwerveDrive4Odometry(kinematics, gyroAngle, modulePositions, initialPose),
\* and resetPosition(gyroAngle, modulePositions, pose)
ResetPositionKeepsGyroHeading(gyroAngle, positions, pose) ==
    [pose          |-> Pose2d(pose.x, pose.y, gyroAngle),
     gyroOffset    |-> R(0),
     previousAngle |-> gyroAngle,
     previous      |-> Distances(positions)]

ResetPosition(gyroAngle, positions, pose) ==
    [pose          |-> pose,
     gyroOffset    |-> RSub(pose.rot, gyroAngle),
     previousAngle |-> pose.rot,
     previous      |-> Distances(positions)]

\* update(gyroAngle, modulePositions)
OdometryUpdate(od, gyroAngle, positions) ==
    LET angle == WrapDeg(RAdd(gyroAngle, od.gyroOffset))
        now   == Distances(positions)
        twist == ForwardKinematics([m \in Modules |-> now[m] - od.previous[m]],
                                   [m \in Modules |-> RoundDeg(positions[m].angle)])
        moved == RotateBy(twist.vx, twist.vy, RoundDeg(od.pose.rot))
    IN  [od EXCEPT !.pose          = Pose2d(od.pose.x + moved.x, od.pose.y + moved.y, angle),
                   !.previousAngle = angle,
                   !.previous      = now]

----------------------------------------------------------------------------
(* swerve.py: Swerve.                                                      *)

ZeroHeadings == [m \in Modules |-> 0]

\* Swerve.getAngle: navX.getRotation2d()
SwerveGetAngle(sw) == R(sw.navX)

\* the orders in which Swerve writes its modules into tuples
SwerveConstructionOrder == <<"LF", "LR", "RF", "RR">>   \* __init__, odometry
SwerveDispatchOrderSwapped == <<"LF", "RF", "LR", "RR">>
SwerveDispatchOrder == <<"LF", "LR", "RF", "RR">>       \* setModuleStates
SwerveResetOrder == <<"LF", "LR", "RF", "RR">>          \* resetOdometry
SwerveUpdateOrder == <<"LF", "LR", "RF", "RR">>         \* periodic

SwervePositions(mods, real, order) ==
    [l \in Modules |-> getPosition(mods[TupleEntry(order, l)], real)]

\* class attributes and Swerve.__init__
NewSwerve(mods, real) ==
    [chassisSpeed |-> ChassisSpeeds(0, 0, 0),
     targetRad    |-> R(0),
     navX         |-> 0,              \* the navX yaw reading (degrees)
     headings     |-> ZeroHeadings,   \* module headings the kinematics remembers
     odometry     |-> ResetPosition(R(0), SwervePositions(mods, real, SwerveConstructionOrder),
                                    Pose2d(0, 0, R(0))),
     field        |-> Pose2d(0, 0, R(0))]

\* Swerve.getChassisSpeeds
getChassisSpeeds(sw) == sw.chassisSpeed

\* Rotation2d(value): value is in radians; pi is taken as 355/113
RadiansToDegrees(r) == RMul(r, RDiv(R(180 * 113), R(355)))

\* Swerve.setModuleStates with optimizeAngle at its default: the modules
\* after the four setDesiredState calls
SetModuleStatesDispatch(states) == DesaturateWheelSpeeds(states, kMaxSpeed)

setModuleStates(mods, states, real) ==
    LET desatStates == SetModuleStatesDispatch(states)
    IN  [m \in Modules |->
            setDesiredState(mods[m], desatStates[LocationOf(SwerveDispatchOrder, m)],
                            TRUE, real)]

\* Swerve.drive: the robot angle it converts a field-relative command with;
\* in simulation Rotation2d.fromDegrees(self.targetRad)
SwerveDriveHeading(sw, real) == IF real THEN SwerveGetAngle(sw) ELSE sw.targetRad

\* Swerve.periodic: the gyro angle it updates the odometry with; in
\* simulation Rotation2d(self.targetRad)
SwerveOdometryHeading(sw, real) ==
    IF real THEN SwerveGetAngle(sw) ELSE RadiansToDegrees(sw.targetRad)

\* Swerve.drive: the values it computes, in the order it computes them
SwerveDrivePlan(sw, chassisSpeed, fieldRelative, real) ==
    LET heading     == SwerveDriveHeading(sw, real)
        robotSpeeds == IF fieldRelative
                       THEN FromFieldRelativeSpeeds(chassisSpeed, heading)
                       ELSE chassisSpeed
        states      == ToSwerveModuleStates(robotSpeeds, sw.headings)
        desatStates == DesaturateWheelSpeeds(states, kMaxSpeed)
    IN  [stages      |-> (IF fieldRelative THEN <<"rotate">> ELSE <<>>)
                         \o <<"kinematics", "desaturate", "dispatch">>,
         heading     |-> heading,
         robotSpeeds |-> robotSpeeds,
         states      |-> states,
         desatStates |-> desatStates]

\* Swerve.hockeyStop: the four states it sets
HockeyStopStates ==
    [LF |-> [speed |-> R(0), angle |-> R(225)],
     LR |-> [speed |-> R(0), angle |-> R(-45)],
     RF |-> [speed |-> R(0), angle |-> R(135)],
     RR |-> [speed |-> R(0), angle |-> R(45)]]

----------------------------------------------------------------------------
(* drivetrain.py: Drivetrain.  Its module class (subsystems.module) and    *)
(* its constants are not part of the sources at hand: a module is the      *)
(* state it was last sent and the state and position its sensors report.   *)

\* Constants.Drivetrain.k_max_attainable_speed (m/s)
k_max_attainable_speed == 10

\* the weight addVisionMeasurement gives the vision pose's translation
\* under Constants.Limelight.k_standard_deviations; the heading is given none
VisionGain == <<1, 2>>

\* the angular rate (degrees/s) at and above which vision is not fused
MaxFusionRate == 720

NewDrivetrainModule ==
    [desired  |-> [speed |-> R(0), angle |-> R(0)],
     state    |-> [speed |-> R(0), angle |-> R(0)],
     position |-> [distance |-> R(0), angle |-> R(0)]]

\* the four get_position() readings, LF, LR, RF, RR
\* the orders in which Drivetrain writes its modules into tuples
DrivetrainConstructionOrder == <<"LF", "LR", "RF", "RR">>   \* odometry
DrivetrainUpdateOrder == <<"LF", "LR", "RF", "RR">>         \* periodic
DrivetrainResetOrder == <<"LF", "LR", "RF", "RR">>          \* reset_pose
DrivetrainStateOrder == <<"LF", "LR", "RF", "RR">>          \* get_robot_speed
DrivetrainDispatchOrder == <<"LF", "LR", "RF", "RR">>       \* set_desired_module_states

DrivetrainPositions(d, order) ==
    [l \in Modules |-> d.modules[TupleEntry(order, l)].position]

\* class attributes of Drivetrain
NewDrivetrain ==
    [gyro_sim |-> R(0),
     navx     |-> 0,              \* the navX yaw reading (degrees)
     headings |-> ZeroHeadings,   \* module headings the kinematics remembers
     odometry |-> ResetPosition(R(0),
                                [l \in Modules |->
                                    [m \in Modules |-> NewDrivetrainModule]
                                        [TupleEntry(DrivetrainConstructionOrder, l)].position],
                                Pose2d(0, 0, R(0))),
     field    |-> Pose2d(0, 0, R(0)),
     modules  |-> [m \in Modules |-> NewDrivetrainModule]]

\* Drivetrain.get_yaw
get_yaw(d, real) == IF real THEN R(d.navx) ELSE d.gyro_sim

\* Drivetrain.reset_yaw
reset_yaw(d) == [d EXCEPT !.gyro_sim = R(0), !.navx = 0]

\* Drivetrain.simulate_gyro; omega in mrad/s
simulate_gyro(d, omega) ==
    [d EXCEPT !.gyro_sim = RAdd(@, RDiv(RadiansToDegrees(FromMilli(omega)), R(50)))]

\* Drivetrain.reset_pose
reset_pose(d, pose, real) ==
    [d EXCEPT !.odometry = ResetPosition(get_yaw(d, real),
                                      DrivetrainPositions(d, DrivetrainResetOrder), pose)]

\* Drivetrain.get_robot_speed
get_robot_speed(d) ==
    ToChassisSpeeds([l \in Modules |-> d.modules[TupleEntry(DrivetrainStateOrder, l)].state])

\* SwerveDrive4PoseEstimator.addVisionMeasurement(pose, timestamp): the
\* estimate moves toward the vision pose by the gain (latency replay left out)
AddVisionMeasurement(od, visionPose) ==
    [od EXCEPT !.pose =
        Pose2d(od.pose.x + DivRound((visionPose.x - od.pose.x) * VisionGain[1], VisionGain[2]),
               od.pose.y + DivRound((visionPose.y - od.pose.y) * VisionGain[1], VisionGain[2]),
               od.pose.rot)]

\* the condition of Drivetrain.periodic under which the measurement is fused
FusesVisionWithoutTags(rate, tag_count, real) == Abs(rate) < MaxFusionRate /\ real

FusesVision(rate, tag_count, real) ==
    Abs(rate) < MaxFusionRate /\ tag_count > 0 /\ real

\* Drivetrain.periodic: rate is navx.getRate(), tag_count and pose are
\* what the limelight reports
DrivetrainPeriodicPublishesFirst(d, rate, tag_count, pose, real) ==
    LET updated == OdometryUpdate(d.odometry, get_yaw(d, real),
                                  DrivetrainPositions(d, DrivetrainUpdateOrder))
        fused   == FusesVision(rate, tag_count, real)
    IN  [dt      |-> [d EXCEPT !.field = updated.pose,
                               !.odometry = IF fused THEN AddVisionMeasurement(updated, pose)
                                            ELSE updated],
         updated |-> updated.pose,
         fused   |-> fused,
         stages  |-> <<"read positions", "update", "publish">>
                     \o (IF fused THEN <<"fuse">> ELSE <<>>)]

DrivetrainPeriodic(d, rate, tag_count, pose, real) ==
    LET updated == OdometryUpdate(d.odometry, get_yaw(d, real),
                                  DrivetrainPositions(d, DrivetrainUpdateOrder))
        fused   == FusesVision(rate, tag_count, real)
        final   == IF fused THEN AddVisionMeasurement(updated, pose) ELSE updated
    IN  [dt      |-> [d EXCEPT !.odometry = final, !.field = final.pose],
         updated |-> updated.pose,
         fused   |-> fused,
         stages  |-> <<"read positions", "update">>
                     \o (IF fused THEN <<"fuse">> ELSE <<>>)
                     \o <<"publish">>]

\* Drivetrain.set_desired_module_states: what each module is sent
DrivetrainDispatch(states) == DesaturateWheelSpeeds(states, k_max_attainable_speed)

set_desired_module_states(d, states) ==
    [d EXCEPT !.modules = [m \in Modules |->
                              [@[m] EXCEPT !.desired =
                                  DrivetrainDispatch(states)
                                      [LocationOf(DrivetrainDispatchOrder, m)]]]]

\* Drivetrain.drive_robot_centric
drive_robot_centric(d, speeds0) ==
    LET speeds        == Discretize(speeds0)
        module_speeds == ToSwerveModuleStates(speeds, d.headings)
        sent          == set_desired_module_states(d, module_speeds)
    IN  [dt          |-> simulate_gyro([sent EXCEPT !.headings = HeadingsAfter(speeds, @)],
                                       speeds.omega),
         stages      |-> <<"discretize", "kinematics", "desaturate", "dispatch">>,
         robotSpeeds |-> speeds,
         states      |-> module_speeds]

\* Drivetrain.drive_field_relative
drive_field_relative(d, speeds0, real) ==
    LET discretized   == Discretize(speeds0)
        speeds        == FromFieldRelativeSpeeds(discretized, get_yaw(d, real))
        module_speeds == ToSwerveModuleStates(speeds, d.headings)
        sent          == set_desired_module_states(d, module_speeds)
    IN  [dt          |-> simulate_gyro([sent EXCEPT !.headings = HeadingsAfter(speeds, @)],
                                       speeds.omega),
         stages      |-> <<"discretize", "rotate", "kinematics", "desaturate", "dispatch">>,
         robotSpeeds |-> speeds,
         states      |-> module_speeds]

\* robot.py, Waffles.autonomousInit: the pose it resets to
AutonomousStartPose(alliance) ==
    IF alliance = "kRed" THEN Pose2d(0, 0, R(180)) ELSE Pose2d(0, 0, R(0))

autonomousInit(d, alliance, real) ==
    reset_pose(reset_yaw(d), AutonomousStartPose(alliance), real)

----------------------------------------------------------------------------
(* Bounds and inputs of the single-module specifications.                  *)

\* steering set points are kept within this many degrees of zero
MaxSteerDegrees == 540

\* desired angles handed to setDesiredState (degrees)
DesiredAngles == {-170, -45, 0, 90, 170, 180, 225}

\* desired speeds handed to setDesiredState
DesiredSpeeds == {-3, 12}

\* the desired speed used while the steering is exercised
SteerSpeed == 12

\* CANCoder absolute positions (degrees)
AbsolutePositions == {0, 10, 190, 350}

\* the module instance the single-module specifications exercise
UnitModules == {"LF"}

\* drive sensor positions are kept within this many counts of zero
MaxDriveCounts == 2400

\* simDrivePos is kept within this distance of zero
MaxSimDistance == 7

\* drive sensor velocities the hardware, or the simulation, reports
DriveVelocities == {0, 1200}

WithinSteer(counts) == RLe(RAbs(SteerDeg(counts)), R(MaxSteerDegrees))

----------------------------------------------------------------------------
(* Single-module specification: one SwerveModule steered through its       *)
(* public methods by an arbitrary caller.                                  *)

InitModule ==
    /\ impl = "Module"
    /\ calls = 0
    /\ isReal \in BOOLEAN
    /\ modules = [m \in Modules |-> NewModule]
    /\ swerve = [unused |-> TRUE]
    /\ dt = [unused |-> TRUE]
    /\ last = [op |-> "init"]

MSetDesiredState(m, speed, angle, optimize) ==
    LET mod == setDesiredState(modules[m], [speed |-> R(speed), angle |-> R(angle)],
                               optimize, isReal)
    IN  /\ WithinSteer(mod.dirDemand)
        /\ modules' = [modules EXCEPT ![m] = mod]
        /\ last' = [op |-> "setDesiredState"]
        /\ UNCHANGED <<impl, isReal, swerve, dt, calls>>

MResetSensorPosition(m, abs) ==
    /\ modules' = [modules EXCEPT ![m] = resetSensorPosition(@, R(abs))]
    /\ last' = [op |-> "resetSensorPosition"]
    /\ UNCHANGED <<impl, isReal, swerve, dt, calls>>

MResetPositions(m) ==
    /\ modules' = [modules EXCEPT ![m] = resetPositions(@)]
    /\ last' = [op |-> "resetPositions"]
    /\ UNCHANGED <<impl, isReal, swerve, dt, calls>>

\* the real direction motor reaches its MotionMagic set point
MSteerMotorSettles(m) ==
    /\ isReal
    /\ modules[m].dirPos # modules[m].dirDemand
    /\ modules' = [modules EXCEPT ![m].dirPos = modules[m].dirDemand]
    /\ last' = [op |-> "steerMotorSettles"]
    /\ UNCHANGED <<impl, isReal, swerve, dt, calls>>

ModuleNext ==
    \E m \in UnitModules :
        \/ \E a \in DesiredAngles, o \in BOOLEAN :
               MSetDesiredState(m, SteerSpeed, a, o)
        \/ \E abs \in AbsolutePositions : MResetSensorPosition(m, abs)
        \/ MResetPositions(m)
        \/ MSteerMotorSettles(m)

SpecModule == InitModule /\ [][ModuleNext]_vars

----------------------------------------------------------------------------
(* Properties of the steering logic (SpecModule).                          *)

\* the raw difference changeDirection starts from: target minus current angle
RawDelta(mod) == RSub(mod.rotation, SteerDeg(mod.steerFrom))

\* C1: a setDesiredState call with optimize=True never commands a steering
\* rotation of more than 90 degrees, whatever the current angle and the
\* desired state; a module at 170 degrees asked for -170 degrees is turned
\* by 20 degrees.
C1_OptimizedRotationAtMost90 ==
    \A m \in Modules :
        modules[m].call = "optimized" =>
            /\ RLe(RAbs(CommandedRotation(modules[m])), R(90))
            /\ (SteerDeg(modules[m].steerFrom) = R(170) /\ modules[m].reqAngle = R(-170))
                   => CommandedRotation(modules[m]) = R(20)

\* C1 witness: the 170 -> -170 case has been commanded
C1_Witness ==
    \E m \in Modules :
        /\ modules[m].call = "optimized"
        /\ SteerDeg(modules[m].steerFrom) = R(170)
        /\ modules[m].reqAngle = R(-170)
        /\ CommandedRotation(modules[m]) = R(20)

\* C2: changeDirection commands a position congruent to the target modulo
\* 360 degrees that differs from the current position by the raw difference
\* normalized into (-180, 180], so by at most 180 degrees.
C2_MinimalArc ==
    \A m \in Modules :
        modules[m].call # "none" =>
            /\ RMod(RSub(SteerDeg(modules[m].dirDemand), modules[m].rotation), 360) = R(0)
            /\ CommandedRotation(modules[m]) = WrapDeg(RawDelta(modules[m]))
            /\ RLe(RAbs(CommandedRotation(modules[m])), R(180))

\* C2 witness: a negative raw difference of more than a turn has been taken
\* the short way round
C2_Witness ==
    \E m \in Modules :
        /\ modules[m].call # "none"
        /\ RLt(RawDelta(modules[m]), R(-360))
        /\ CommandedRotation(modules[m]) # R(0)

----------------------------------------------------------------------------
(* Single-module specification of the drive sensor: the wheel turns, the   *)
(* simulation integrates, the caller re-zeroes.                            *)

\* the drive motor's sensor reports velocity v, its position having advanced
\* by v counts over the last 100 ms
MDriveSensor(m, v) ==
    LET pos == RAdd(modules[m].drivePos, R(v))
    IN  /\ RLe(RAbs(pos), R(MaxDriveCounts))
        /\ modules' = [modules EXCEPT ![m].driveVel = R(v), ![m].drivePos = pos]
        /\ last' = [op |-> "driveSensor"]
        /\ UNCHANGED <<impl, isReal, swerve, dt, calls>>

\* the scheduler runs simulationPeriodic in simulation only
MSimulationPeriodic(m) ==
    LET mod == simulationPeriodic(modules[m])
    IN  /\ ~isReal
        /\ RLe(RAbs(mod.simDrivePos), R(MaxSimDistance))
        /\ modules' = [modules EXCEPT ![m] = mod]
        /\ last' = [op |-> "simulationPeriodic"]
        /\ UNCHANGED <<impl, isReal, swerve, dt, calls>>

\* resetPositions, keeping what getPosition read just before the call
MResetPositionsObserved(m) ==
    /\ modules' = [modules EXCEPT ![m] = resetPositions(@)]
    /\ last' = [op |-> "resetPositions", m |-> m,
                before |-> getPosition(modules[m], isReal)]
    /\ UNCHANGED <<impl, isReal, swerve, dt, calls>>

WheelNext ==
    \E m \in UnitModules :
        \/ \E v \in DriveVelocities : MDriveSensor(m, v)
        \/ MSimulationPeriodic(m)
        \/ MResetPositionsObserved(m)
        \/ \E abs \in AbsolutePositions : MResetSensorPosition(m, abs)

SpecWheel == InitModule /\ [][WheelNext]_vars

\* C9: after resetPositions() getPosition() reports a drive distance of zero,
\* on hardware and in simulation alike, and the steering angle it reports is
\* the one it reported before the call.
C9_ResetZeroesDistanceOnly ==
    last.op = "resetPositions" =>
        /\ getPosition(modules[last.m], isReal).distance = R(0)
        /\ getPosition(modules[last.m], isReal).angle = last.before.angle

\* C9, hardware only: the drive distance does read zero after the call
C9_RealDistanceZero ==
    (last.op = "resetPositions" /\ isReal) =>
        getPosition(modules[last.m], isReal).distance = R(0)

----------------------------------------------------------------------------
(* Bounds and inputs of the whole-program specification.                   *)

\* at most this many operations and hardware steps run after construction
MaxCalls == 3

\* simulated headings are kept within this many hundredths of a radian
\* (Swerve.targetRad) or degrees (Drivetrain.gyro_sim) of zero
MaxTargetCentirad == 2

\* drive sensor positions are kept within this many counts of zero
MaxWheelCounts == 8

\* simulated drive distances are kept within this many mm of zero
MaxSimMilli == 40

\* chassis speeds handed to the drive methods: <<vx, vy, omega>> in mm/s, mrad/s
DriveCommands == {<<1000, 0, 0>>, <<1000, 0, 1000>>, <<12000, 0, 0>>}

\* yaw readings of the navX on hardware (degrees)
GyroAngles == {0, 90}

\* poses handed to the reset methods
ResetPoses == {Pose2d(2000, 1000, R(180))}

\* CANCoder readings at Swerve.initialize (degrees)
InitialAbsolutePositions == {10}

\* module speeds handed directly to the dispatch methods (m/s), LF, LR, RF, RR
DirectSpeeds == {<<10, 15, 8, 12>>, <<3, -4, 5, 6>>}

StatesOf(speeds) ==
    [LF |-> [speed |-> R(speeds[1]), angle |-> R(0)],
     LR |-> [speed |-> R(speeds[2]), angle |-> R(0)],
     RF |-> [speed |-> R(speeds[3]), angle |-> R(0)],
     RR |-> [speed |-> R(speeds[4]), angle |-> R(0)]]

AllWithinSteer(mods) == \A m \in Modules : WithinSteer(mods[m].dirDemand)

----------------------------------------------------------------------------
(* swerve.py: the operations of Swerve and of its hardware.                *)

InitSwerve ==
    /\ impl = "Swerve"
    /\ calls = 0
    /\ isReal \in BOOLEAN
    /\ modules = [m \in Modules |-> NewModule]
    /\ swerve = NewSwerve([m \in Modules |-> NewModule], isReal)
    /\ dt = [unused |-> TRUE]
    /\ last = [op |-> "init"]

\* Swerve.drive(chassisSpeed, fieldRelative)
SDrive(chassisSpeed, fieldRelative) ==
    LET plan == SwerveDrivePlan(swerve, chassisSpeed, fieldRelative, isReal)
        mods == setModuleStates(modules, plan.desatStates, isReal)
        rad  == IF isReal THEN swerve.targetRad
                ELSE RAdd(swerve.targetRad, RDiv(FromMilli(chassisSpeed.omega), R(50)))
    IN  /\ impl = "Swerve"
        /\ calls < MaxCalls
        /\ calls' = calls + 1
        /\ AllWithinSteer(mods)
        /\ RLe(RAbs(rad), RDiv(R(MaxTargetCentirad), R(100)))
        /\ modules' = mods
        /\ swerve' = [swerve EXCEPT !.chassisSpeed = chassisSpeed,
                                    !.headings = HeadingsAfter(plan.robotSpeeds, @),
                                    !.targetRad = rad]
        /\ last' = [op |-> "drive", fieldRelative |-> fieldRelative,
                    speeds |-> chassisSpeed, heading |-> plan.heading,
                    stages |-> plan.stages, robotSpeeds |-> plan.robotSpeeds,
                    requested |-> plan.states,
                    dispatched |-> SetModuleStatesDispatch(plan.desatStates)]
        /\ UNCHANGED <<impl, isReal, dt>>

\* Swerve.setModuleStates(moduleStates) called on its own
SSetModuleStates(states) ==
    LET mods == setModuleStates(modules, states, isReal)
    IN  /\ impl = "Swerve"
        /\ calls < MaxCalls
        /\ calls' = calls + 1
        /\ AllWithinSteer(mods)
        /\ modules' = mods
        /\ last' = [op |-> "setModuleStates", requested |-> states,
                    dispatched |-> SetModuleStatesDispatch(states)]
        /\ UNCHANGED <<impl, isReal, swerve, dt>>

\* Swerve.hockeyStop
SHockeyStop ==
    LET mods == [m \in Modules |->
                    setDesiredState(modules[m], HockeyStopStates[m], TRUE, isReal)]
    IN  /\ impl = "Swerve"
        /\ calls < MaxCalls
        /\ calls' = calls + 1
        /\ AllWithinSteer(mods)
        /\ modules' = mods
        /\ last' = [op |-> "hockeyStop"]
        /\ UNCHANGED <<impl, isReal, swerve, dt>>

\* Swerve.resetOdometry(pose)
SResetOdometry(pose) ==
    /\ impl = "Swerve"
    /\ calls < MaxCalls
    /\ calls' = calls + 1
    /\ swerve' = [swerve EXCEPT
                    !.targetRad = R(0),
                    !.odometry  = ResetPosition(SwerveGetAngle(swerve),
                                                SwervePositions(modules, isReal, SwerveResetOrder),
                                                pose)]
    /\ last' = [op |-> "resetPose", pose |-> pose, before |-> swerve.odometry.pose]
    /\ UNCHANGED <<impl, isReal, modules, dt>>

\* Swerve.periodic
SPeriodic ==
    LET gyro == SwerveOdometryHeading(swerve, isReal)
        od   == OdometryUpdate(swerve.odometry, gyro,
                               SwervePositions(modules, isReal, SwerveUpdateOrder))
    IN  /\ impl = "Swerve"
        /\ calls < MaxCalls
        /\ calls' = calls + 1
        /\ swerve' = [swerve EXCEPT !.odometry = od, !.field = od.pose]
        /\ last' = [op |-> "periodic", fused |-> FALSE, tagCount |-> 0, rate |-> 0,
                    vision |-> Pose2d(0, 0, R(0)), before |-> swerve.odometry.pose,
                    updated |-> od.pose,
                    stages |-> <<"read positions", "update", "publish">>]
        /\ UNCHANGED <<impl, isReal, modules, dt>>

\* Swerve.initialize (the second definition, which replaces the first);
\* abs is what the four CANCoders read
SInitialize(abs) ==
    /\ impl = "Swerve"
    /\ calls < MaxCalls
    /\ calls' = calls + 1
    /\ swerve' = [swerve EXCEPT !.navX = 0]
    /\ modules' = [m \in Modules |->
                      resetSensorPosition(resetPositions(modules[m]), R(abs))]
    /\ last' = [op |-> "initialize"]
    /\ UNCHANGED <<impl, isReal, dt>>

\* the robot turns: the navX on hardware reads another yaw
SGyroTurns(angle) ==
    /\ impl = "Swerve"
    /\ calls < MaxCalls
    /\ calls' = calls + 1
    /\ isReal
    /\ swerve.navX # angle
    /\ swerve' = [swerve EXCEPT !.navX = angle]
    /\ last' = [op |-> "gyroTurns"]
    /\ UNCHANGED <<impl, isReal, modules, dt>>

\* the drive sensor velocity (counts/100ms) of a wheel running at the speed
\* its PercentOutput demand stands for: getState read backwards
VelocityFor(mod) ==
    R(RTrunc(RMul(RDiv(RMul(mod.demand, R(kMaxSpeed)),
                       RMul(R(10), kWheelCircumference)), R(kGearRatio))))

\* the wheels run at their demanded speeds for 100 ms: every drive sensor
\* reports that velocity and a position advanced by it
SWheelsTurn ==
    LET mods == [m \in Modules |->
                    [modules[m] EXCEPT !.driveVel = VelocityFor(modules[m]),
                                       !.drivePos = RAdd(@, VelocityFor(modules[m]))]]
    IN  /\ impl = "Swerve"
        /\ calls < MaxCalls
        /\ calls' = calls + 1
        /\ mods # modules
        /\ \A m \in Modules : RLe(RAbs(mods[m].drivePos), R(MaxWheelCounts))
        /\ modules' = mods
        /\ last' = [op |-> "wheelsTurn"]
        /\ UNCHANGED <<impl, isReal, swerve, dt>>

\* the real direction motors reach their MotionMagic set points
SSteerMotorsSettle ==
    LET mods == [m \in Modules |-> [modules[m] EXCEPT !.dirPos = modules[m].dirDemand]]
    IN  /\ impl = "Swerve"
        /\ calls < MaxCalls
        /\ calls' = calls + 1
        /\ isReal
        /\ mods # modules
        /\ modules' = mods
        /\ last' = [op |-> "steerMotorsSettle"]
        /\ UNCHANGED <<impl, isReal, swerve, dt>>

\* the scheduler runs every module's simulationPeriodic (simulation only)
SSimulationPeriodic ==
    LET mods == [m \in Modules |-> simulationPeriodic(modules[m])]
    IN  /\ impl = "Swerve"
        /\ calls < MaxCalls
        /\ calls' = calls + 1
        /\ ~isReal
        /\ mods # modules
        /\ \A m \in Modules : Abs(Milli(mods[m].simDrivePos)) <= MaxSimMilli
        /\ modules' = mods
        /\ last' = [op |-> "simulationPeriodic"]
        /\ UNCHANGED <<impl, isReal, swerve, dt>>

SwerveNext ==
    \/ \E c \in DriveCommands, f \in BOOLEAN :
           SDrive(ChassisSpeeds(c[1], c[2], c[3]), f)
    \/ \E sp \in DirectSpeeds : SSetModuleStates(StatesOf(sp))
    \/ SHockeyStop
    \/ \E p \in ResetPoses : SResetOdometry(p)
    \/ SPeriodic
    \/ \E abs \in InitialAbsolutePositions : SInitialize(abs)
    \/ \E a \in GyroAngles : SGyroTurns(a)
    \/ SWheelsTurn
    \/ SSteerMotorsSettle
    \/ SSimulationPeriodic

SpecSwerve == InitSwerve /\ [][SwerveNext]_vars

----------------------------------------------------------------------------
(* drivetrain.py and robot.py: the operations of Drivetrain and of its     *)
(* hardware.                                                               *)

\* simulated gyro angles are kept within this many degrees of zero
MaxGyroSimDegrees == 2

\* reported module distances are kept within this many mm of zero
MaxDistanceMilli == 20

\* navx.getRate() readings (degrees/s)
Rates == {0, 720, -800}

\* tag counts the limelight reports
TagCounts == {0, 2}

\* the pose the limelight reports
VisionPoses == {Pose2d(3000, 1000, R(45))}

\* what DriverStation.getAlliance() returns
Alliances == {"kRed", "kBlue"}

\* speeds (m/s) the module sensors report
MeasuredSpeeds == {1}

InitDrivetrain ==
    /\ impl = "Drivetrain"
    /\ calls = 0
    /\ isReal \in BOOLEAN
    /\ modules = [unused |-> TRUE]
    /\ swerve = [unused |-> TRUE]
    /\ dt = NewDrivetrain
    /\ last = [op |-> "init"]

\* Drivetrain.periodic
DPeriodic(rate, tag_count, pose) ==
    LET run == DrivetrainPeriodic(dt, rate, tag_count, pose, isReal)
    IN  /\ impl = "Drivetrain"
        /\ calls < MaxCalls
        /\ calls' = calls + 1
        /\ dt' = run.dt
        /\ last' = [op |-> "periodic", fused |-> run.fused, tagCount |-> tag_count,
                    rate |-> rate, vision |-> pose, before |-> dt.odometry.pose,
                    updated |-> run.updated, stages |-> run.stages]
        /\ UNCHANGED <<impl, isReal, modules, swerve>>

\* Drivetrain.drive_robot_centric(speeds)
DDriveRobotCentric(speeds) ==
    LET run == drive_robot_centric(dt, speeds)
    IN  /\ impl = "Drivetrain"
        /\ calls < MaxCalls
        /\ calls' = calls + 1
        /\ RLe(RAbs(run.dt.gyro_sim), R(MaxGyroSimDegrees))
        /\ dt' = run.dt
        /\ last' = [op |-> "drive", fieldRelative |-> FALSE, speeds |-> speeds,
                    heading |-> get_yaw(dt, isReal), stages |-> run.stages,
                    robotSpeeds |-> run.robotSpeeds, requested |-> run.states,
                    dispatched |-> DrivetrainDispatch(run.states)]
        /\ UNCHANGED <<impl, isReal, modules, swerve>>

\* Drivetrain.drive_field_relative(speeds)
DDriveFieldRelative(speeds) ==
    LET run == drive_field_relative(dt, speeds, isReal)
    IN  /\ impl = "Drivetrain"
        /\ calls < MaxCalls
        /\ calls' = calls + 1
        /\ RLe(RAbs(run.dt.gyro_sim), R(MaxGyroSimDegrees))
        /\ dt' = run.dt
        /\ last' = [op |-> "drive", fieldRelative |-> TRUE, speeds |-> speeds,
                    heading |-> get_yaw(dt, isReal), stages |-> run.stages,
                    robotSpeeds |-> run.robotSpeeds, requested |-> run.states,
                    dispatched |-> DrivetrainDispatch(run.states)]
        /\ UNCHANGED <<impl, isReal, modules, swerve>>

\* Drivetrain.set_desired_module_states(states) called on its own
DSetDesiredModuleStates(states) ==
    /\ impl = "Drivetrain"
    /\ calls < MaxCalls
    /\ calls' = calls + 1
    /\ dt' = set_desired_module_states(dt, states)
    /\ last' = [op |-> "setModuleStates", requested |-> states,
                dispatched |-> DrivetrainDispatch(states)]
    /\ UNCHANGED <<impl, isReal, modules, swerve>>

\* Drivetrain.reset_yaw (the Shuffleboard command)
DResetYaw ==
    /\ impl = "Drivetrain"
    /\ calls < MaxCalls
    /\ calls' = calls + 1
    /\ dt' = reset_yaw(dt)
    /\ last' = [op |-> "resetYaw"]
    /\ UNCHANGED <<impl, isReal, modules, swerve>>

\* Drivetrain.reset_pose(pose)
DResetPose(pose) ==
    /\ impl = "Drivetrain"
    /\ calls < MaxCalls
    /\ calls' = calls + 1
    /\ dt' = reset_pose(dt, pose, isReal)
    /\ last' = [op |-> "resetPose", pose |-> pose, before |-> dt.odometry.pose]
    /\ UNCHANGED <<impl, isReal, modules, swerve>>

\* Waffles.autonomousInit
AutonomousInit(alliance) ==
    /\ impl = "Drivetrain"
    /\ calls < MaxCalls
    /\ calls' = calls + 1
    /\ dt' = autonomousInit(dt, alliance, isReal)
    /\ last' = [op |-> "autonomousInit", alliance |-> alliance,
                yawBefore |-> get_yaw(dt, isReal), before |-> dt.odometry.pose,
                stages |-> <<"reset_yaw", "reset_pose">>]
    /\ UNCHANGED <<impl, isReal, modules, swerve>>

\* the robot turns: the navX on hardware reads another yaw
DGyroTurns(angle) ==
    /\ impl = "Drivetrain"
    /\ calls < MaxCalls
    /\ calls' = calls + 1
    /\ isReal
    /\ dt.navx # angle
    /\ dt' = [dt EXCEPT !.navx = angle]
    /\ last' = [op |-> "gyroTurns"]
    /\ UNCHANGED <<impl, isReal, modules, swerve>>

\* the wheels roll for one 20 ms period: every module reports the speed, the
\* heading it was last sent and a distance advanced by speed * 0.02
DWheelsRoll(speed) ==
    LET mods == [m \in Modules |->
                    [dt.modules[m] EXCEPT
                        !.state    = [speed |-> R(speed), angle |-> dt.modules[m].desired.angle],
                        !.position = [distance |-> RAdd(@.distance, RDiv(R(speed), R(50))),
                                      angle    |-> dt.modules[m].desired.angle]]]
    IN  /\ impl = "Drivetrain"
        /\ calls < MaxCalls
        /\ calls' = calls + 1
        /\ \A m \in Modules : Abs(Milli(mods[m].position.distance)) <= MaxDistanceMilli
        /\ dt' = [dt EXCEPT !.modules = mods]
        /\ last' = [op |-> "wheelsRoll"]
        /\ UNCHANGED <<impl, isReal, modules, swerve>>

DrivetrainNext ==
    \/ \E r \in Rates, n \in TagCounts, p \in VisionPoses : DPeriodic(r, n, p)
    \/ \E c \in DriveCommands : DDriveRobotCentric(ChassisSpeeds(c[1], c[2], c[3]))
    \/ \E c \in DriveCommands : DDriveFieldRelative(ChassisSpeeds(c[1], c[2], c[3]))
    \/ \E sp \in DirectSpeeds : DSetDesiredModuleStates(StatesOf(sp))
    \/ DResetYaw
    \/ \E p \in ResetPoses : DResetPose(p)
    \/ \E a \in Alliances : AutonomousInit(a)
    \/ \E a \in GyroAngles : DGyroTurns(a)
    \/ \E v \in MeasuredSpeeds : DWheelsRoll(v)

SpecDrivetrain == InitDrivetrain /\ [][DrivetrainNext]_vars

----------------------------------------------------------------------------
(* The program with either subsystem.                                      *)

Init == InitSwerve \/ InitDrivetrain

Next == SwerveNext \/ DrivetrainNext

Spec == Init /\ [][Next]_vars

----------------------------------------------------------------------------
(* Claims about the subsystems.                                            *)

\* odometry.getEstimatedPosition() / odometry.getPose()
EstimatedPose == IF impl = "Swerve" THEN swerve.odometry.pose ELSE dt.odometry.pose

\* field.getRobotPose(): the pose observers see
PublishedPose == IF impl = "Swerve" THEN swerve.field ELSE dt.field

\* C3: a periodic() cycle of the Drivetrain in which the limelight reports no
\* tag, or the navX rate is above the threshold, does not fuse the vision
\* measurement: the estimate is the pose the odometry update of that cycle
\* produced.
C3_NoFusionWithoutTagsOrWhileSpinning ==
    (impl = "Drivetrain" /\ last.op = "periodic"
        /\ (last.tagCount = 0 \/ Abs(last.rate) > MaxFusionRate))
    => (~last.fused /\ dt.odometry.pose = last.updated)

\* a cycle on hardware, slow rotation, no tag, in which the odometry update
\* moved the estimate and the limelight's pose differs from it
C3_Witness ==
    /\ impl = "Drivetrain" /\ isReal /\ last.op = "periodic"
    /\ last.tagCount = 0 /\ Abs(last.rate) < MaxFusionRate
    /\ last.updated # last.before
    /\ last.vision.x # last.updated.x

\* C4: periodic() reads the positions, updates the estimator, fuses the
\* vision measurement if the guard allows, and publishes last: the published
\* pose is the estimate after this cycle's update and fusion.
C4_PeriodicOrder ==
    last.op = "periodic" =>
        /\ last.stages = <<"read positions", "update">>
                         \o (IF last.fused THEN <<"fuse">> ELSE <<>>)
                         \o <<"publish">>
        /\ PublishedPose = EstimatedPose
        /\ EstimatedPose = IF last.fused
                           THEN AddVisionMeasurement([pose |-> last.updated], last.vision).pose
                           ELSE last.updated

\* a cycle that fused a measurement which moved the estimate
C4_Witness ==
    /\ last.op = "periodic" /\ last.fused
    /\ PublishedPose # last.updated
    /\ last.updated # last.before

\* the module states a robot-centric drive call computes for the speeds
RobotCentricStates(speeds) ==
    IF impl = "Swerve" THEN ToSwerveModuleStates(speeds, ZeroHeadings)
    ELSE ToSwerveModuleStates(Discretize(speeds), ZeroHeadings)

\* C5: a drive request is rotated into the robot frame (field-relative
\* only), then discretized, then converted by the kinematics, then
\* desaturated, then dispatched.
C5_RotateDiscretizeKinematicsDesaturateDispatch ==
    last.op = "drive" =>
        /\ last.stages = (IF last.fieldRelative THEN <<"rotate">> ELSE <<>>)
                         \o <<"discretize", "kinematics", "desaturate", "dispatch">>
        /\ last.robotSpeeds =
               Discretize(IF last.fieldRelative
                          THEN FromFieldRelativeSpeeds(last.speeds, last.heading)
                          ELSE last.speeds)

\* the speeds the Drivetrain hands its kinematics are those of the stated
\* order: discretizing before or after the rotation gives the same speeds
C5_DrivetrainSpeedsAgree ==
    (impl = "Drivetrain" /\ last.op = "drive") =>
        last.robotSpeeds =
            Discretize(IF last.fieldRelative
                       THEN FromFieldRelativeSpeeds(last.speeds, last.heading)
                       ELSE last.speeds)

\* what module m was sent by the last dispatch, as a speed magnitude (m/s)
ReceivedSpeed(m) ==
    IF impl = "Swerve" THEN RMul(RAbs(modules[m].demand), R(kMaxSpeed))
    ELSE RAbs(dt.modules[m].desired.speed)

\* a rational in hundredths
Centi(a) == DivRound(a[1] * 100, a[2])

\* C6: every module is sent a speed no larger than the maximum and no larger
\* than requested; the four speeds keep their ratios, and when a request
\* exceeds the maximum the largest is sent as the maximum; [10, 15, 8, 12]
\* with maximum 10 is sent as [6.67, 10, 5.33, 8].
C6_DispatchDesaturates ==
    last.op \in {"drive", "setModuleStates"} =>
        LET max == IF impl = "Swerve" THEN kMaxSpeed ELSE k_max_attainable_speed
            req == last.requested
            out == last.dispatched
        IN  /\ \A m \in Modules :
                  /\ ReceivedSpeed(m) = RAbs(out[m].speed)
                  /\ RLe(ReceivedSpeed(m), R(max))
                  /\ RLe(ReceivedSpeed(m), RAbs(req[m].speed))
            /\ \A m, n \in Modules :
                  RMul(out[m].speed, req[n].speed) = RMul(out[n].speed, req[m].speed)
            /\ (\E m \in Modules : RLt(R(max), RAbs(req[m].speed)))
                  => (\E m \in Modules : ReceivedSpeed(m) = R(max))
            /\ req = StatesOf(<<10, 15, 8, 12>>)
                  => [m \in Modules |-> Centi(out[m].speed)]
                     = [LF |-> 667, LR |-> 1000, RF |-> 533, RR |-> 800]

\* the dispatch was handed [10, 15, 8, 12]
C6_Witness ==
    /\ last.op = "setModuleStates"
    /\ last.requested = StatesOf(<<10, 15, 8, 12>>)
    /\ ReceivedSpeed("LR") = R(10)

\* C7 (as the code has it): a field-relative command vx = 1, vy = 0,
\* omega = 0 at heading 90 degrees gives the module states of the
\* robot-centric command vx = 0, vy = -1, omega = 0.
C7_FieldForwardAt90IsRobotRight ==
    (last.op = "drive" /\ last.fieldRelative
        /\ last.speeds = ChassisSpeeds(1000, 0, 0) /\ last.heading = R(90))
    => last.requested = RobotCentricStates(ChassisSpeeds(0, -1000, 0))

\* the field-relative command was given at heading 90 degrees
C7_Witness ==
    /\ last.op = "drive" /\ last.fieldRelative
    /\ last.speeds = ChassisSpeeds(1000, 0, 0) /\ last.heading = R(90)

\* C7 as stated: the same command gives the module states of the
\* robot-centric command vx = 0, vy = 1, omega = 0.
C7_FieldForwardAt90IsRobotLeft ==
    (last.op = "drive" /\ last.fieldRelative
        /\ last.speeds = ChassisSpeeds(1000, 0, 0) /\ last.heading = R(90))
    => last.requested = RobotCentricStates(ChassisSpeeds(0, 1000, 0))

\* the speed handed to the path follower
ReportedSpeed == IF impl = "Swerve" THEN getChassisSpeeds(swerve) ELSE get_robot_speed(dt)

\* the forward kinematics of the four measured module states
MeasuredSpeed ==
    ToChassisSpeeds(IF impl = "Swerve" THEN [m \in Modules |-> getState(modules[m])]
                    ELSE [m \in Modules |-> dt.modules[m].state])

\* C8: the robot-relative speed reported is the forward kinematics of the
\* modules' measured states, whatever drive calls came before.
C8_ReportedSpeedIsMeasured == ReportedSpeed = MeasuredSpeed

\* the Drivetrain alone does report the measured speed
C8_DrivetrainReportsMeasured == impl = "Drivetrain" => ReportedSpeed = MeasuredSpeed

\* C10: right after reset_pose(p) the estimate is p; autonomousInit resets
\* the heading and then the pose, to (0, 0, 180 degrees) on the red alliance
\* and to (0, 0, 0 degrees) otherwise.
C10_ResetPoseTakesEffect ==
    /\ last.op = "resetPose" => EstimatedPose = last.pose
    /\ last.op = "autonomousInit" =>
          /\ last.stages = <<"reset_yaw", "reset_pose">>
          /\ get_yaw(dt, isReal) = R(0)
          /\ dt.odometry.pose = IF last.alliance = "kRed" THEN Pose2d(0, 0, R(180))
                                ELSE Pose2d(0, 0, R(0))
          /\ dt.odometry.gyroOffset = dt.odometry.pose.rot

\* autonomous starts on the red alliance with the robot turned and the
\* estimate away from the origin
C10_Witness ==
    /\ last.op = "autonomousInit" /\ last.alliance = "kRed"
    /\ last.yawBefore # R(0)
    /\ last.before # Pose2d(0, 0, R(0))

----------------------------------------------------------------------------
(* Claims about the drive demand.                                          *)

\* C11: after every setDesiredState call the demand of the drive motor is
\* speed / kMaxSpeed clamped to [-1, 1]: its magnitude is at most 1.
C11_DemandWithinUnit ==
    impl \in {"Module", "Swerve"} =>
        \A m \in Modules :
            modules[m].call # "none" => RLe(RAbs(modules[m].demand), R(1))

\* through Swerve.drive, Swerve.setModuleStates and Swerve.hockeyStop the
\* demand is within [-1, 1]: the states are desaturated before they are sent
C11_SwerveDemandWithinUnit ==
    impl = "Swerve" => \A m \in Modules : RLe(RAbs(modules[m].demand), R(1))

----------------------------------------------------------------------------
(* Claims about the module ordering.                                       *)

\* where a module sits on the robot, from its name: x forward, y to the left
PhysicalLocation(m) ==
    [x |-> IF m \in {"LF", "RF"} THEN 1 ELSE -1,
     y |-> IF m \in {"LF", "LR"} THEN 1 ELSE -1]

\* every order in which the subsystems write their modules into tuples
TupleOrders ==
    {SwerveConstructionOrder, SwerveDispatchOrder, SwerveResetOrder, SwerveUpdateOrder,
     DrivetrainConstructionOrder, DrivetrainUpdateOrder, DrivetrainResetOrder,
     DrivetrainStateOrder, DrivetrainDispatchOrder}

\* the get_position() / getPosition() reading of module m
PositionOf(m) ==
    IF impl = "Swerve" THEN getPosition(modules[m], isReal) ELSE dt.modules[m].position

\* the module positions the estimator last took
EstimatorPositions ==
    IF impl = "Swerve" THEN swerve.odometry.previous ELSE dt.odometry.previous

\* C12: there are four modules; every tuple lists them left-front,
\* left-rear, right-front, right-rear, the order of the kinematics
\* locations, each of which is where its module sits; so each module is sent
\* the state computed for its own location, and the estimator takes each
\* module's position and the measured speed each module's state at that
\* module's location.
C12_OneModuleOrder ==
    /\ Cardinality(Modules) = 4
    /\ TupleOrders = {KinematicsOrder}
    /\ \A i \in 1..4 :
          ModuleLocation[KinematicsOrder[i]] = PhysicalLocation(KinematicsOrder[i])
    /\ last.op \in {"drive", "setModuleStates"} =>
          \A m \in Modules :
              IF impl = "Swerve"
              THEN /\ modules[m].reqAngle = last.dispatched[m].angle
                   /\ ReceivedSpeed(m) = RAbs(last.dispatched[m].speed)
              ELSE dt.modules[m].desired = last.dispatched[m]
    /\ last.op \in {"periodic", "resetPose", "autonomousInit"} =>
          \A m \in Modules : EstimatorPositions[m] = Milli(PositionOf(m).distance)
    /\ impl = "Drivetrain" =>
          get_robot_speed(dt) = ToChassisSpeeds([m \in Modules |-> dt.modules[m].state])

\* the estimator was updated with positions that differ between the left
\* and the right modules
C12_Witness ==
    /\ last.op = "periodic"
    /\ EstimatorPositions["LR"] # EstimatorPositions["RF"]

\* a dispatch sent four different speeds
C12_DispatchReached ==
    /\ last.op = "setModuleStates"
    /\ Cardinality({ReceivedSpeed(m) : m \in Modules}) = 4

----------------------------------------------------------------------------
(* Claims about the half turn.                                             *)

\* C13: when the target is exactly half a turn from the sensor position
\* (the raw difference is 180 degrees modulo 360, of either sign),
\* changeDirection moves the set point by +180 degrees.
C13_HalfTurnIsPositive ==
    \A m \in Modules :
        (modules[m].call # "none" /\ RMod(RawDelta(modules[m]), 360) = R(180))
            => CommandedRotation(modules[m]) = R(180)

\* a raw difference of -180 degrees has been commanded
C13_Witness ==
    \E m \in Modules :
        /\ modules[m].call # "none"
        /\ RawDelta(modules[m]) = R(-180)
        /\ CommandedRotation(modules[m]) = R(180)

\* a raw difference of half a turn beyond a full turn has been commanded
C13_BeyondATurnReached ==
    \E m \in Modules :
        /\ modules[m].call # "none"
        /\ RMod(RawDelta(modules[m]), 360) = R(180)
        /\ RLt(R(180), RAbs(RawDelta(modules[m])))

----------------------------------------------------------------------------
(* Claims about when vision is fused.                                      *)

\* C14: on hardware, a periodic() cycle with at least one tag and a navX
\* rate of magnitude at most the threshold, the threshold itself included,
\* fuses the vision measurement, after the update and before the publication.
C14_FusedUpToThreshold ==
    (impl = "Drivetrain" /\ isReal /\ last.op = "periodic"
        /\ last.tagCount > 0 /\ Abs(last.rate) <= MaxFusionRate)
    => /\ last.fused
       /\ last.stages = <<"read positions", "update", "fuse", "publish">>

\* below the threshold such a cycle does fuse
C14_FusedBelowThreshold ==
    (impl = "Drivetrain" /\ isReal /\ last.op = "periodic"
        /\ last.tagCount > 0 /\ Abs(last.rate) < MaxFusionRate)
    => /\ last.fused
       /\ last.stages = <<"read positions", "update", "fuse", "publish">>
       /\ dt.field = AddVisionMeasurement([pose |-> last.updated], last.vision).pose

\* at the threshold it does not
C14_NotFusedAtThreshold ==
    (impl = "Drivetrain" /\ last.op = "periodic" /\ Abs(last.rate) = MaxFusionRate)
    => ~last.fused

----------------------------------------------------------------------------
(* Claims about the simulated heading.                                     *)

\* the heading (degrees) a drive call would convert a field-relative command with
DriveHeading ==
    IF impl = "Swerve" THEN SwerveDriveHeading(swerve, isReal) ELSE get_yaw(dt, isReal)

\* the heading (degrees) a periodic() call would update the odometry with
OdometryHeading ==
    IF impl = "Swerve" THEN SwerveOdometryHeading(swerve, isReal) ELSE get_yaw(dt, isReal)

\* C15: in simulation the heading drive converts with is the heading
\* periodic updates the odometry with, and a heading reset returns both to
\* zero.
C15_SimulatedHeadingsAgree ==
    ~isReal =>
        /\ DriveHeading = OdometryHeading
        /\ last.op \in {"resetPose", "resetYaw", "autonomousInit"} /\ impl = "Swerve"
              => DriveHeading = R(0) /\ OdometryHeading = R(0)
        /\ last.op \in {"resetYaw", "autonomousInit"} /\ impl = "Drivetrain"
              => DriveHeading = R(0) /\ OdometryHeading = R(0)

\* in the Drivetrain the two headings are the same get_yaw() reading
C15_DrivetrainHeadingsAgree ==
    (~isReal /\ impl = "Drivetrain") => DriveHeading = OdometryHeading

\* a heading reset returns both headings to zero in either subsystem
C15_ResetReturnsZero ==
    (~isReal /\ (\/ impl = "Swerve" /\ last.op = "resetPose"
                 \/ impl = "Drivetrain" /\ last.op \in {"resetYaw", "autonomousInit"}))
    => DriveHeading = R(0) /\ OdometryHeading = R(0)

\* the simulated Drivetrain has turned
C15_DrivetrainTurned == ~isReal /\ impl = "Drivetrain" /\ dt.gyro_sim # R(0)

====
